---- MODULE Spec2Model ----
(***************************************************************************)
(* Model of the reduction record (src/compiler/reduction.c) and of the     *)
(* code-point string utilities (src/compiler/ustring.c) of the dewy        *)
(* compiler-compiler.                                                      *)
(*                                                                         *)
(* Text is modelled as sequences of code points (naturals); a C string is  *)
(* a sequence that ends with the terminator 0.  Addresses are naturals.    *)
(***************************************************************************)
EXTENDS Integers, Sequences, FiniteSets

VARIABLES
    heap,       \* reduction.c: Addr -> the fields of the reduction record at that address
    live,       \* reduction.c: the addresses malloc has handed out and free has not taken back
    call,       \* reduction.c: the last call: its name, operands, return value and printed text
    pcall,      \* ustring.c: the literal held and its last parse: name, base, return value
    ccall,      \* ustring.c: the two strings held and their last comparison
    ecall,      \* ustring.c: the escape character held and its last resolution
    mem,        \* ustring.c: the bytes written so far to the UTF-8 buffer
    str_ptr,    \* ustring.c: *str_ptr, a position (1-based) in the buffer
    emitted,    \* ustring.c: the last put_unicode: where it wrote, what, how many bytes
    ucall,      \* ustring.c: the last UTF-8 call: its name, *str_ptr before, return value
    pk          \* ustring.c: the last peek_unicode and the eat_utf8 calls made after it

vars == <<heap, live, call, pcall, ccall, ecall, mem, str_ptr, emitted, ucall, pk>>

(***************************************************************************)
(* Bounds of the model.                                                    *)
(***************************************************************************)
\* number of heap cells malloc can hand out
MaxAddr == 3

Addr == 1..MaxAddr

(***************************************************************************)
(* Text helpers.                                                           *)
(***************************************************************************)
\* printf's %PRIu64 conversion: the decimal digits of n, most significant first
RECURSIVE fmt_u64(_)
fmt_u64(n) ==
    IF n < 10 THEN <<48 + n>> ELSE fmt_u64(n \div 10) \o <<48 + (n % 10)>>

\* length of the code-point string up to (not including) the terminator
RECURSIVE ustring_len_from(_, _)
ustring_len_from(string, length) ==
    IF string[length + 1] # 0 THEN ustring_len_from(string, length + 1) ELSE length

ustring_len(string) == ustring_len_from(string, 0)

(***************************************************************************)
(* The symbol table of the metaparser (a collaborator of reduction.c).     *)
(***************************************************************************)
\* names of the head symbols, each a zero-terminated code-point string:
\* "S", "Expr", "#a", "List"
SymbolNames ==
    << <<83, 0>>, <<69, 120, 112, 114, 0>>, <<35, 97, 0>>, <<76, 105, 115, 116, 0>> >>

\* the head symbols the model constructs records with
HeadIdx == {0, 1}

\* the symbol object at index i; its data is the name
metaparser_get_symbol(i) == [data |-> SymbolNames[(i % Len(SymbolNames)) + 1]]

\* obj_str of a symbol: prints the code points of its name
obj_str(o) == SubSeq(o.data, 1, ustring_len(o.data))

\* the production lengths the model constructs records with
Lengths == {0, 9, 10, 12345}

(***************************************************************************)
(* reduction.c                                                             *)
(***************************************************************************)
NoCall ==
    [fn |-> "none", a |-> 0, b |-> 0, head_idx |-> 0, length |-> 0,
     retB |-> FALSE, retN |-> 0, out |-> <<>>]

\* what the model keeps for a cell that holds no record (its content is indeterminate)
Dead == [head_idx |-> 0, length |-> 0]

\* the text "R("
TxtOpen == <<82, 40>>
\* the text ", "
TxtSep == <<44, 32>>
\* the text ")"
TxtClose == <<41>>
\* the text "reduction{head_idx: "
TxtReprHead ==
    <<114, 101, 100, 117, 99, 116, 105, 111, 110, 123,
      104, 101, 97, 100, 95, 105, 100, 120, 58, 32>>
\* the text ", length: "
TxtReprLength == <<44, 32, 108, 101, 110, 103, 116, 104, 58, 32>>
\* the text "}"
TxtReprClose == <<125>>

\* the text reduction_str prints for the record r
reduction_str_text(r) ==
    TxtOpen \o obj_str(metaparser_get_symbol(r.head_idx))
            \o TxtSep \o fmt_u64(r.length) \o TxtClose

\* mutant: the format string lacks the space after the comma
snprintf_width_no_space(length) == Len(TxtOpen \o <<44>> \o fmt_u64(length) \o TxtClose)

\* snprintf("", 0, "R(, %"PRIu64")", length): the number of characters of the text
snprintf_width(length) == Len(TxtOpen \o TxtSep \o fmt_u64(length) \o TxtClose)

reduction_strlen_width(r) ==
    ustring_len(metaparser_get_symbol(r.head_idx).data) + snprintf_width(r.length)

reduction_repr_text(r) ==
    TxtReprHead \o fmt_u64(r.head_idx) \o TxtReprLength \o fmt_u64(r.length)
                \o TxtReprClose

\* mutant: the head symbols are not compared
reduction_equals_ret_length_only(left, right) == left.length = right.length

reduction_equals_ret(left, right) ==
    left.length = right.length /\ left.head_idx = right.head_idx

\* a hash of a sequence of unsigned integers (utilities.c, a collaborator)
HashMod == 65521
RECURSIVE hash_uint_sequence(_, _)
hash_uint_sequence(seq, n) ==
    IF n = 0 THEN 7
    ELSE (hash_uint_sequence(seq, n - 1) * 31 + seq[n]) % HashMod

\* mutant: the pointer is hashed in place of the length it points at
reduction_hash_ret_pointer(a, r) == hash_uint_sequence(<<a, r.head_idx>>, 2)

\* reduction_hash of the record at address a holding r
reduction_hash_ret(a, r) == hash_uint_sequence(<<r.length, r.head_idx>>, 2)

new_reduction(head_idx, length) ==
    \E a \in Addr \ live :
        /\ heap' = [heap EXCEPT ![a] = [head_idx |-> head_idx, length |-> length]]
        /\ live' = live \cup {a}
        /\ call' = [NoCall EXCEPT !.fn = "new_reduction", !.a = a,
                                  !.head_idx = head_idx, !.length = length]
        /\ UNCHANGED <<pcall, ccall, ecall, mem, str_ptr, emitted, ucall, pk>>

reduction_str(a) ==
    /\ a \in live
    /\ call' = [NoCall EXCEPT !.fn = "reduction_str", !.a = a,
                              !.out = reduction_str_text(heap[a])]
    /\ UNCHANGED <<heap, live, pcall, ccall, ecall, mem, str_ptr, emitted, ucall, pk>>

\* mutant: the digits are counted by dividing the record's own length
reduction_strlen_in_place(a) ==
    /\ a \in live
    /\ call' = [NoCall EXCEPT !.fn = "reduction_strlen", !.a = a,
                              !.retN = reduction_strlen_width(heap[a])]
    /\ heap' = [heap EXCEPT ![a].length = 0]
    /\ UNCHANGED <<live, pcall, ccall, ecall, mem, str_ptr, emitted, ucall, pk>>

reduction_strlen(a) ==
    /\ a \in live
    /\ call' = [NoCall EXCEPT !.fn = "reduction_strlen", !.a = a,
                              !.retN = reduction_strlen_width(heap[a])]
    /\ UNCHANGED <<heap, live, pcall, ccall, ecall, mem, str_ptr, emitted, ucall, pk>>

reduction_repr(a) ==
    /\ a \in live
    /\ call' = [NoCall EXCEPT !.fn = "reduction_repr", !.a = a,
                              !.out = reduction_repr_text(heap[a])]
    /\ UNCHANGED <<heap, live, pcall, ccall, ecall, mem, str_ptr, emitted, ucall, pk>>

reduction_equals(a, b) ==
    /\ a \in live
    /\ b \in live
    /\ call' = [NoCall EXCEPT !.fn = "reduction_equals", !.a = a, !.b = b,
                              !.retB = reduction_equals_ret(heap[a], heap[b])]
    /\ UNCHANGED <<heap, live, pcall, ccall, ecall, mem, str_ptr, emitted, ucall, pk>>

reduction_hash(a) ==
    /\ a \in live
    /\ call' = [NoCall EXCEPT !.fn = "reduction_hash", !.a = a,
                              !.retN = reduction_hash_ret(a, heap[a])]
    /\ UNCHANGED <<heap, live, pcall, ccall, ecall, mem, str_ptr, emitted, ucall, pk>>

reduction_free(a) ==
    /\ a \in live
    /\ live' = live \ {a}
    /\ heap' = [heap EXCEPT ![a] = Dead]
    /\ call' = [NoCall EXCEPT !.fn = "reduction_free", !.a = a]
    /\ UNCHANGED <<pcall, ccall, ecall, mem, str_ptr, emitted, ucall, pk>>

(***************************************************************************)
(* Fixed-width unsigned arithmetic.  A w-byte unsigned integer is the      *)
(* sequence of its w bytes, least significant first: uint64_t is 8 bytes,  *)
(* uint32_t is 4.  Every operation is modulo 256^w, as in C.               *)
(***************************************************************************)
\* the w low bytes of the natural n
RECURSIVE nat_bytes(_, _)
nat_bytes(n, w) ==
    IF w = 0 THEN <<>> ELSE <<n % 256>> \o nat_bytes(n \div 256, w - 1)

u64(n) == nat_bytes(n, 8)

RECURSIVE add_from(_, _, _, _)
add_from(x, y, i, carry) ==
    IF i > Len(x) THEN <<>>
    ELSE LET s == x[i] + y[i] + carry
         IN  <<s % 256>> \o add_from(x, y, i + 1, s \div 256)

\* x + y modulo 256^w
uint_add(x, y) == add_from(x, y, 1, 0)

RECURSIVE sub_from(_, _, _, _)
sub_from(x, y, i, borrow) ==
    IF i > Len(x) THEN <<>>
    ELSE LET d == x[i] - y[i] - borrow
         IN  <<(d + 256) % 256>> \o sub_from(x, y, i + 1, IF d < 0 THEN 1 ELSE 0)

\* x - y modulo 256^w
uint_sub(x, y) == sub_from(x, y, 1, 0)

\* column k of the schoolbook product: the sum of x[i] * y[k + 1 - i]
RECURSIVE mul_column(_, _, _, _)
mul_column(x, y, k, i) ==
    IF i > k THEN 0 ELSE x[i] * y[k + 1 - i] + mul_column(x, y, k, i + 1)

RECURSIVE mul_from(_, _, _, _)
mul_from(x, y, k, carry) ==
    IF k > Len(x) THEN <<>>
    ELSE LET s == mul_column(x, y, k, 1) + carry
         IN  <<s % 256>> \o mul_from(x, y, k + 1, s \div 256)

\* x * y modulo 256^w
uint_mul(x, y) == mul_from(x, y, 1, 0)

(***************************************************************************)
(* ustring.c: numeric literals                                             *)
(***************************************************************************)
\* the conversion of a code point to the char the digit functions take
to_char(c) == c % 256

\* the value of a decimal digit character (utilities.c, a collaborator)
dec_digit_to_value(c) == IF c >= 48 /\ c <= 57 THEN u64(c - 48) ELSE u64(0)

\* the value of a hexadecimal digit character (utilities.c, a collaborator)
hex_digit_to_value(c) ==
    IF c >= 48 /\ c <= 57 THEN u64(c - 48)
    ELSE IF c >= 65 /\ c <= 70 THEN u64(c - 65 + 10)
    ELSE IF c >= 97 /\ c <= 102 THEN u64(c - 97 + 10)
    ELSE u64(0)

digit_to_value(base, c) ==
    IF base = 16 THEN hex_digit_to_value(c) ELSE dec_digit_to_value(c)

\* mutant: the power grows by adding the base
RECURSIVE parse_loop_added_power(_, _, _, _, _)
parse_loop_added_power(str, base, i, pow, val) ==
    IF i >= 0
    THEN parse_loop_added_power(str, base, i - 1,
                    uint_add(pow, u64(base)),
                    uint_add(val, uint_mul(digit_to_value(base, to_char(str[i + 1])), pow)))
    ELSE val

\* the loop of ustring_parse_base, from index i (0-based) down to 0
RECURSIVE parse_loop(_, _, _, _, _)
parse_loop(str, base, i, pow, val) ==
    IF i >= 0
    THEN parse_loop(str, base, i - 1,
                    uint_mul(pow, u64(base)),
                    uint_add(val, uint_mul(digit_to_value(base, to_char(str[i + 1])), pow)))
    ELSE val

ustring_parse_base(str, base) ==
    LET len == ustring_len(str)
    IN  parse_loop(str, base, len - 1, u64(1), u64(0))

NoParse == [fn |-> "none", str |-> <<0>>, base |-> 0, ret |-> u64(0), error |-> FALSE]

\* whether every character of the string before its terminator is among chars
IsDigitString(str, chars) == \A i \in 1..ustring_len(str) : str[i] \in chars

\* the function returns a uint64_t and has no other way to report anything
ustring_parse_dec(str) ==
    /\ IsDigitString(str, 48..57)
    /\ pcall' = [fn |-> "ustring_parse_dec", str |-> str, base |-> 10,
                 ret |-> ustring_parse_base(str, 10), error |-> FALSE]
    /\ UNCHANGED <<heap, live, call, ccall, ecall, mem, str_ptr, emitted, ucall, pk>>

ustring_parse_hex(str) ==
    /\ IsDigitString(str, (48..57) \cup (65..70) \cup (97..102))
    /\ pcall' = [fn |-> "ustring_parse_hex", str |-> str, base |-> 16,
                 ret |-> ustring_parse_base(str, 16), error |-> FALSE]
    /\ UNCHANGED <<heap, live, call, ccall, ecall, mem, str_ptr, emitted, ucall, pk>>

\* the literals the model parses: every digit string of at most MaxShort digits, and
\* the literals around 2^64 below, each behind at most MaxZeros leading zeros
MaxShort == 2
MaxZeros == 2

DecDigitChars == 48..57
HexDigitChars == (48..57) \cup (65..70) \cup (97..102)

\* the digit characters of a sequence of digit values: '0'..'9', then letters from `a`
DigitChars(ds, a) == [i \in 1..Len(ds) |-> IF ds[i] < 10 THEN 48 + ds[i] ELSE a + ds[i] - 10]

\* 2^64 - 1, 2^64, 2^64 + 1, 10^19, 10^20, 10^20 - 1, 2^65, 2^64 + 10
LongDec ==
    { <<1, 8, 4, 4, 6, 7, 4, 4, 0, 7, 3, 7, 0, 9, 5, 5, 1, 6, 1, 5>>,
      <<1, 8, 4, 4, 6, 7, 4, 4, 0, 7, 3, 7, 0, 9, 5, 5, 1, 6, 1, 6>>,
      <<1, 8, 4, 4, 6, 7, 4, 4, 0, 7, 3, 7, 0, 9, 5, 5, 1, 6, 1, 7>>,
      <<1, 0, 0, 0, 0, 0, 0, 0, 0, 0, 0, 0, 0, 0, 0, 0, 0, 0, 0, 0>>,
      <<1, 0, 0, 0, 0, 0, 0, 0, 0, 0, 0, 0, 0, 0, 0, 0, 0, 0, 0, 0, 0>>,
      <<9, 9, 9, 9, 9, 9, 9, 9, 9, 9, 9, 9, 9, 9, 9, 9, 9, 9, 9, 9>>,
      <<3, 6, 8, 9, 3, 4, 8, 8, 1, 4, 7, 4, 1, 9, 1, 0, 3, 2, 3, 2>>,
      <<1, 8, 4, 4, 6, 7, 4, 4, 0, 7, 3, 7, 0, 9, 5, 5, 1, 6, 2, 6>> }

\* 2^64 - 1, 2^64, 2^64 + 1, 2^63, 0x123456789abcdef0, 0xfedcba9876543210f, 2^64 + 10
LongHex ==
    { <<15, 15, 15, 15, 15, 15, 15, 15, 15, 15, 15, 15, 15, 15, 15, 15>>,
      <<1, 0, 0, 0, 0, 0, 0, 0, 0, 0, 0, 0, 0, 0, 0, 0, 0>>,
      <<1, 0, 0, 0, 0, 0, 0, 0, 0, 0, 0, 0, 0, 0, 0, 0, 1>>,
      <<8, 0, 0, 0, 0, 0, 0, 0, 0, 0, 0, 0, 0, 0, 0, 0>>,
      <<1, 2, 3, 4, 5, 6, 7, 8, 9, 10, 11, 12, 13, 14, 15, 0>>,
      <<15, 14, 13, 12, 11, 10, 9, 8, 7, 6, 5, 4, 3, 2, 1, 0, 15>>,
      <<1, 0, 0, 0, 0, 0, 0, 0, 0, 0, 0, 0, 0, 0, 0, 0, 10>> }

Zeros(z) == [i \in 1..z |-> 48]

ShortStrings(chars) ==
    UNION { [1..k -> chars] : k \in 0..MaxShort }

DecInputs ==
    { s \o <<0>> : s \in ShortStrings(DecDigitChars) }
    \cup { Zeros(z) \o DigitChars(ds, 97) \o <<0>> : z \in 0..MaxZeros, ds \in LongDec }

HexInputs ==
    { s \o <<0>> : s \in ShortStrings(HexDigitChars) }
    \cup { Zeros(z) \o DigitChars(ds, a) \o <<0>> :
             z \in 0..MaxZeros, ds \in LongHex, a \in {65, 97} }

(***************************************************************************)
(* ustring.c: ustring_cmp.  A code point is a uint32_t: 4 bytes, least     *)
(* significant first; a string ends with the code point 0.                 *)
(***************************************************************************)
u32(n) == nat_bytes(n, 4)

\* the conversion of a uint32_t to int64_t: the value is kept, the high bytes are 0
int64_of_u32(x) == x \o <<0, 0, 0, 0>>

\* the do-while loop of ustring_cmp from index i (1-based): the last l and r read
RECURSIVE cmp_loop(_, _, _)
cmp_loop(left, right, i) ==
    LET l == left[i]
        r == right[i]
    IN  IF l = u32(0) THEN <<l, r>>
        ELSE IF l = r THEN cmp_loop(left, right, i + 1)
        ELSE <<l, r>>

\* return l - r: the difference of two uint32_t is a uint32_t, converted to int64_t
ustring_cmp_ret(left, right) ==
    LET lr == cmp_loop(left, right, 1)
    IN  int64_of_u32(uint_sub(lr[1], lr[2]))

NoCmp == [fn |-> "none", left |-> <<u32(0)>>, right |-> <<u32(0)>>, ret |-> u64(0)]

ustring_cmp(left, right) ==
    /\ ccall' = [fn |-> "ustring_cmp", left |-> left, right |-> right,
                 ret |-> ustring_cmp_ret(left, right)]
    /\ UNCHANGED <<heap, live, call, pcall, ecall, mem, str_ptr, emitted, ucall, pk>>

\* the strings the model compares: at most MaxCmpLen code points among
\* 'a', 'b', 0x10FFFF, 0x80000000, 0xFFFFFFFF
MaxCmpLen == 2

CmpChars ==
    { <<97, 0, 0, 0>>, <<98, 0, 0, 0>>, <<255, 255, 16, 0>>, <<0, 0, 0, 128>>,
      <<255, 255, 255, 255>> }

CmpInputs == { s \o <<u32(0)>> : s \in UNION { [1..k -> CmpChars] : k \in 0..MaxCmpLen } }

(***************************************************************************)
(* ustring.c: escape_to_unicode                                            *)
(***************************************************************************)
\* mutant: the case of 'v' is missing
escape_to_unicode_ret_no_v(c) ==
    CASE c = 97  -> 7
      [] c = 98  -> 8
      [] c = 116 -> 9
      [] c = 110 -> 10
      [] c = 102 -> 12
      [] c = 114 -> 13
      [] OTHER   -> c

escape_to_unicode_ret(c) ==
    CASE c = 97  -> 7
      [] c = 98  -> 8
      [] c = 116 -> 9
      [] c = 110 -> 10
      [] c = 118 -> 11
      [] c = 102 -> 12
      [] c = 114 -> 13
      [] OTHER   -> c

NoEscape == [fn |-> "none", c |-> 0, ret |-> 0]

escape_to_unicode(c) ==
    /\ ecall' = [fn |-> "escape_to_unicode", c |-> c, ret |-> escape_to_unicode_ret(c)]
    /\ UNCHANGED <<heap, live, call, pcall, ccall, mem, str_ptr, emitted, ucall, pk>>

\* the code points the model resolves: 0..MaxEscapeInput and a few beyond ASCII
MaxEscapeInput == 127

EscapeInputs == (0..MaxEscapeInput) \cup {233, 945, 8364, 128406, 1114111, 2097152}

(***************************************************************************)
(* ustring.c: UTF-8.  mem is a zero-filled buffer of BufCap bytes of which *)
(* the first Len(mem) have been written; put_unicode's output is captured  *)
(* at its end, and str_ptr walks it.                                       *)
(***************************************************************************)
\* bitwise operators of C on naturals
RECURSIVE BitAnd(_, _)
BitAnd(x, y) ==
    IF x = 0 \/ y = 0 THEN 0
    ELSE (x % 2) * (y % 2) + 2 * BitAnd(x \div 2, y \div 2)

RECURSIVE BitOr(_, _)
BitOr(x, y) ==
    IF x = 0 THEN y
    ELSE IF y = 0 THEN x
    ELSE (IF x % 2 = 1 \/ y % 2 = 1 THEN 1 ELSE 0) + 2 * BitOr(x \div 2, y \div 2)

Shr(x, k) == x \div (2 ^ k)
Shl(x, k) == x * (2 ^ k)

\* the conversion of an int to int8_t
int8(v) == IF v % 256 >= 128 THEN (v % 256) - 256 ELSE v % 256

\* the byte putchar writes for the int ch: ch converted to unsigned char
putchar(ch) == (ch + 256) % 256

\* mutant: the lead byte of a two-byte encoding is marked 10, not 110
put_unicode_bytes_wide_lead(c) ==
    IF c < 128 THEN <<putchar(int8(BitAnd(c, 127)))>>
    ELSE IF c < 2048 THEN
        <<putchar(int8(BitOr(BitAnd(Shr(c, 6), 223), 128))),
          putchar(int8(BitOr(BitAnd(c, 63), 128)))>>
    ELSE IF c < 65536 THEN
        <<putchar(int8(BitOr(BitAnd(Shr(c, 12), 15), 224))),
          putchar(int8(BitOr(BitAnd(Shr(c, 6), 63), 128))),
          putchar(int8(BitOr(BitAnd(c, 63), 128)))>>
    ELSE IF c <= 2097151 THEN
        <<putchar(int8(BitOr(BitAnd(Shr(c, 18), 7), 240))),
          putchar(int8(BitOr(BitAnd(Shr(c, 12), 63), 128))),
          putchar(int8(BitOr(BitAnd(Shr(c, 6), 63), 128))),
          putchar(int8(BitOr(BitAnd(c, 63), 128)))>>
    ELSE <<>>

\* the bytes put_unicode writes for the code point c, in the order written; none
\* when it reports an invalid code point
put_unicode_bytes(c) ==
    IF c < 128 THEN
        LET b0 == int8(BitAnd(c, 127))
        IN  <<putchar(b0)>>
    ELSE IF c < 2048 THEN
        LET b0 == int8(BitOr(BitAnd(c, 63), 128))
            b1 == int8(BitOr(BitAnd(Shr(c, 6), 223), 192))
        IN  <<putchar(b1), putchar(b0)>>
    ELSE IF c < 65536 THEN
        LET b0 == int8(BitOr(BitAnd(c, 63), 128))
            b1 == int8(BitOr(BitAnd(Shr(c, 6), 63), 128))
            b2 == int8(BitOr(BitAnd(Shr(c, 12), 15), 224))
        IN  <<putchar(b2), putchar(b1), putchar(b0)>>
    ELSE IF c <= 2097151 THEN
        LET b0 == int8(BitOr(BitAnd(c, 63), 128))
            b1 == int8(BitOr(BitAnd(Shr(c, 6), 63), 128))
            b2 == int8(BitOr(BitAnd(Shr(c, 12), 63), 128))
            b3 == int8(BitOr(BitAnd(Shr(c, 18), 7), 240))
        IN  <<putchar(b3), putchar(b2), putchar(b1), putchar(b0)>>
    ELSE <<>>

\* whether put_unicode prints its "invalid unicode codepoint" error for c
put_unicode_error(c) == ~(c <= 2097151)

\* the capacity of the buffer
BufCap == 16

\* the byte at position p (1-based) of the buffer
Byte(m, p) == IF p <= Len(m) THEN m[p] ELSE 0

\* eat_utf8 with *str_ptr = p: the code point returned, *str_ptr afterwards, and
\* whether the ill-formed error was printed
eat_utf8_ret(m, p) ==
    LET b0 == Byte(m, p)
        b1 == Byte(m, p + 1)
        b2 == Byte(m, p + 2)
        b3 == Byte(m, p + 3)
        cont(b) == Shr(b, 6) = 2
        ill(q) == [c |-> 0, ptr |-> q, err |-> TRUE]
    IN  IF b0 = 0 THEN [c |-> 0, ptr |-> p + 1, err |-> FALSE]
        ELSE IF Shr(b0, 7) = 0 THEN [c |-> b0, ptr |-> p + 1, err |-> FALSE]
        ELSE IF Shr(b0, 5) = 6 THEN
            IF cont(b1)
            THEN [c |-> BitOr(Shl(BitAnd(b0, 31), 6), BitAnd(b1, 63)),
                  ptr |-> p + 2, err |-> FALSE]
            ELSE ill(p + 2)
        ELSE IF Shr(b0, 4) = 14 THEN
            IF cont(b1)
            THEN IF cont(b2)
                 THEN [c |-> BitOr(BitOr(Shl(BitAnd(b0, 15), 12), Shl(BitAnd(b1, 63), 6)),
                                   BitAnd(b2, 63)),
                       ptr |-> p + 3, err |-> FALSE]
                 ELSE ill(p + 3)
            ELSE ill(p + 2)
        ELSE IF Shr(b0, 3) = 30 THEN
            IF cont(b1)
            THEN IF cont(b2)
                 THEN IF cont(b3)
                      THEN [c |-> BitOr(BitOr(BitOr(Shl(BitAnd(b0, 7), 18),
                                                    Shl(BitAnd(b1, 63), 12)),
                                              Shl(BitAnd(b2, 63), 6)),
                                        BitAnd(b3, 63)),
                            ptr |-> p + 4, err |-> FALSE]
                      ELSE ill(p + 4)
                 ELSE ill(p + 3)
            ELSE ill(p + 2)
        ELSE ill(p + 1)

\* the loop of peek_unicode on its copy of the pointer: i from 0 to index
RECURSIVE peek_loop(_, _, _, _)
peek_loop(m, str, i, index) ==
    LET e == eat_utf8_ret(m, str)
    IN  IF i < index THEN peek_loop(m, e.ptr, i + 1, index) ELSE e

\* mutant: the loop runs on the caller's pointer, not on a copy
peek_unicode_ret_no_copy(m, p, index) ==
    LET e == peek_loop(m, p, 0, index)
    IN  [c |-> e.c, delta |-> e.ptr - e.ptr, ptr |-> e.ptr]

\* peek_unicode with *str_ptr = p: the code point returned, the value stored in
\* *delta when delta is not NULL, and *str_ptr afterwards
peek_unicode_ret(m, p, index) ==
    LET e == peek_loop(m, p, 0, index)
    IN  [c |-> e.c, delta |-> e.ptr - p, ptr |-> p]

NoEmitted == [fn |-> "none", at |-> 0, c |-> 0, n |-> 0, err |-> FALSE]
NoUCall == [fn |-> "none", from |-> 0, c |-> 0, err |-> FALSE]
NoPeek ==
    [fn |-> "none", at |-> 0, index |-> 0, c |-> 0, delta_given |-> FALSE, delta |-> 0,
     eaten |-> 0, last |-> 0, end |-> 0]

\* the code points the model prints while fewer than MaxContent bytes are written
MaxContent == 1

put_unicode(c) ==
    /\ Len(mem) < MaxContent
    /\ mem' = mem \o put_unicode_bytes(c)
    /\ emitted' = [fn |-> "put_unicode", at |-> Len(mem) + 1, c |-> c,
                   n |-> Len(put_unicode_bytes(c)), err |-> put_unicode_error(c)]
    /\ ucall' = [NoUCall EXCEPT !.fn = "put_unicode", !.c = c]
    /\ pk' = NoPeek
    /\ UNCHANGED <<heap, live, call, pcall, ccall, ecall, str_ptr>>

\* pk keeps the last peek and the index + 1 eat_utf8 calls that follow it
eat_utf8 ==
    /\ str_ptr + 3 <= BufCap
    /\ LET e == eat_utf8_ret(mem, str_ptr)
       IN  /\ str_ptr' = e.ptr
           /\ ucall' = [fn |-> "eat_utf8", from |-> str_ptr, c |-> e.c, err |-> e.err]
           /\ pk' = IF pk.fn = "peek_unicode" /\ pk.eaten <= pk.index
                    THEN [pk EXCEPT !.eaten = @ + 1, !.last = e.c, !.end = e.ptr]
                    ELSE pk
    /\ UNCHANGED <<heap, live, call, pcall, ccall, ecall, mem, emitted>>

peek_unicode(index, delta_given) ==
    /\ str_ptr + 4 * (index + 1) - 1 <= BufCap
    /\ LET r == peek_unicode_ret(mem, str_ptr, index)
       IN  /\ str_ptr' = r.ptr
           /\ ucall' = [fn |-> "peek_unicode", from |-> str_ptr, c |-> r.c, err |-> FALSE]
           /\ pk' = [fn |-> "peek_unicode", at |-> str_ptr, index |-> index, c |-> r.c,
                     delta_given |-> delta_given,
                     delta |-> IF delta_given THEN r.delta ELSE 0,
                     eaten |-> 0, last |-> 0, end |-> 0]
    /\ UNCHANGED <<heap, live, call, pcall, ccall, ecall, mem, emitted>>

\* the largest index the model peeks at
MaxIndex == 2

\* what the buffer holds at the start: nothing, "A", "AB", U+00E9, U+20AC, U+1F596,
\* "A" U+00E9 "B", and ill-formed or cut sequences
Buffers ==
    { <<>>, <<65>>, <<65, 66>>, <<195, 169>>, <<226, 130, 172>>, <<240, 159, 150, 150>>,
      <<65, 195, 169, 66>>,
      <<195>>, <<195, 65>>, <<226, 130>>, <<226, 65, 66>>, <<240, 159, 65>>,
      <<128, 65>>, <<255, 65>>, <<248, 136, 128, 128, 128>>, <<65, 0, 66>> }

\* the code points the model prints: the ends of every encoded length, the
\* surrogates, the last code points, and 2^k - 1, 2^k for every bit k
PutInputs ==
    { 0, 1, 65, 126, 129, 191, 192, 233, 945, 2046, 2049, 8364, 55295, 55296, 57343,
      57344, 65533, 65534, 65537, 128406, 1114111, 1114112, 2097150, 2097153,
      2147483647 }
    \cup { 2 ^ k - 1 : k \in 1..21 } \cup { 2 ^ k : k \in 1..21 }

(***************************************************************************)
(* Specifications: every one starts with nothing constructed and nothing   *)
(* called; each runs the operations of one part of the program.            *)
(***************************************************************************)
IdleReduction ==
    /\ heap = [a \in Addr |-> Dead]
    /\ live = {}
    /\ call = NoCall

IdleUtf8 ==
    /\ mem = <<>>
    /\ str_ptr = 1
    /\ emitted = NoEmitted
    /\ ucall = NoUCall
    /\ pk = NoPeek

InitReduction ==
    /\ IdleReduction
    /\ pcall = NoParse
    /\ ccall = NoCmp
    /\ ecall = NoEscape
    /\ IdleUtf8

NextReduction ==
    \/ \E h \in HeadIdx, l \in Lengths : new_reduction(h, l)
    \/ \E a \in Addr : reduction_str(a)
    \/ \E a \in Addr : reduction_strlen(a)
    \/ \E a \in Addr : reduction_repr(a)
    \/ \E a \in Addr, b \in Addr : reduction_equals(a, b)
    \/ \E a \in Addr : reduction_hash(a)
    \/ \E a \in Addr : reduction_free(a)

SpecReduction == InitReduction /\ [][NextReduction]_vars

\* the caller holds one literal and parses it
InitParse ==
    /\ IdleReduction
    /\ pcall \in { [NoParse EXCEPT !.str = s] : s \in DecInputs \cup HexInputs }
    /\ ccall = NoCmp
    /\ ecall = NoEscape
    /\ IdleUtf8

NextParse ==
    \/ ustring_parse_dec(pcall.str)
    \/ ustring_parse_hex(pcall.str)

SpecParse == InitParse /\ [][NextParse]_vars

\* the caller holds two strings and compares them
InitCmp ==
    /\ IdleReduction
    /\ pcall = NoParse
    /\ ccall \in { [NoCmp EXCEPT !.left = l, !.right = r] : l \in CmpInputs, r \in CmpInputs }
    /\ ecall = NoEscape
    /\ IdleUtf8

NextCmp == ustring_cmp(ccall.left, ccall.right)

SpecCmp == InitCmp /\ [][NextCmp]_vars

\* the caller holds the character after a backslash and resolves it
InitEscape ==
    /\ IdleReduction
    /\ pcall = NoParse
    /\ ccall = NoCmp
    /\ ecall \in { [NoEscape EXCEPT !.c = c] : c \in EscapeInputs }
    /\ IdleUtf8

NextEscape == escape_to_unicode(ecall.c)

SpecEscape == InitEscape /\ [][NextEscape]_vars

\* the buffer holds some bytes and the caller's pointer is at its start
InitUtf8 ==
    /\ IdleReduction
    /\ pcall = NoParse
    /\ ccall = NoCmp
    /\ ecall = NoEscape
    /\ mem \in Buffers
    /\ str_ptr = 1
    /\ emitted = NoEmitted
    /\ ucall = NoUCall
    /\ pk = NoPeek

NextUtf8 ==
    \/ \E c \in PutInputs : put_unicode(c)
    \/ eat_utf8
    \/ \E index \in 0..MaxIndex, delta_given \in BOOLEAN : peek_unicode(index, delta_given)

SpecUtf8 == InitUtf8 /\ [][NextUtf8]_vars

(***************************************************************************)
(* Properties of the reduction record.                                     *)
(***************************************************************************)
LiveRecords == { heap[a] : a \in live }

\* C1: reduction_equals(a, b) is true exactly when a.head_idx = b.head_idx and
\* a.length = b.length; on the records constructed so far it is reflexive,
\* symmetric and transitive.
C1_EqualsIsStructural ==
    /\ call.fn = "reduction_equals" =>
           (call.retB <=> /\ heap[call.a].head_idx = heap[call.b].head_idx
                          /\ heap[call.a].length = heap[call.b].length)
    /\ \A x \in LiveRecords : reduction_equals_ret(x, x)
    /\ \A x \in LiveRecords, y \in LiveRecords :
           reduction_equals_ret(x, y) => reduction_equals_ret(y, x)
    /\ \A x \in LiveRecords, y \in LiveRecords, z \in LiveRecords :
           reduction_equals_ret(x, y) /\ reduction_equals_ret(y, z)
               => reduction_equals_ret(x, z)

\* two distinct records with the same fields were compared, among three live records
C1_Witness ==
    /\ call.fn = "reduction_equals"
    /\ call.a # call.b
    /\ call.retB
    /\ Cardinality(live) >= 3
    /\ \E c \in live : heap[c] # heap[call.a]

\* C2: whenever reduction_equals(a, b) is true, reduction_hash(a) = reduction_hash(b):
\* the hash returned for a record is the hash of every live record with the same
\* (length, head_idx), whatever its address.
C2_EqualRecordsHashEqual ==
    call.fn = "reduction_hash" =>
        \A b \in live :
            reduction_equals_ret(heap[call.a], heap[b])
                => call.retN = reduction_hash_ret(b, heap[b])

\* a record was hashed while an equal record lives at another address
C2_Witness ==
    /\ call.fn = "reduction_hash"
    /\ \E b \in live \ {call.a} : reduction_equals_ret(heap[call.a], heap[b])

\* C6: new_reduction(h, l) makes a record with head_idx = h and length = l; no
\* operation changes the fields of a record that stays alive, and only
\* reduction_free ends a record's life.
C6_RecordImmutable ==
    [][ /\ call'.fn = "new_reduction" =>
               /\ call'.a \in live' \ live
               /\ heap'[call'.a] = [head_idx |-> call'.head_idx, length |-> call'.length]
        /\ \A a \in live \cap live' : heap'[a] = heap[a]
        /\ \A a \in live \ live' : call'.fn = "reduction_free" /\ call'.a = a
      ]_vars

\* the width of a record with a two-digit length was taken, and the record is intact
C6_Witness ==
    /\ call.fn = "reduction_strlen"
    /\ call.a \in live
    /\ heap[call.a] = [head_idx |-> 1, length |-> 10]

\* the number of decimal digits of n
RECURSIVE DecimalDigits(_)
DecimalDigits(n) == IF n < 10 THEN 1 ELSE 1 + DecimalDigits(n \div 10)

\* C7: reduction_strlen(r) is the number of characters reduction_str(r) prints:
\* the length of the head symbol's name plus 5 plus the number of decimal digits of
\* r.length.
C7_StrlenIsPrintedWidth ==
    call.fn = "reduction_strlen" =>
        LET r == heap[call.a]
            name == SymbolNames[r.head_idx + 1]
        IN  /\ call.retN = Len(reduction_str_text(r))
            /\ call.retN = (Len(name) - 1) + 5 + DecimalDigits(r.length)

\* the width of a record with a four-letter head and a five-digit length was taken
C7_Witness ==
    /\ call.fn = "reduction_strlen"
    /\ heap[call.a] = [head_idx |-> 1, length |-> 12345]
    /\ call.retN = 14

(***************************************************************************)
(* Properties of numeric literal parsing.                                  *)
(***************************************************************************)
\* the width, in bytes, of the integers the positional value is computed in: wide
\* enough for every literal of the model
WideBytes == 16

\* x * k + d over WideBytes bytes, for a small k and d
RECURSIVE scale_add_from(_, _, _, _)
scale_add_from(x, k, i, carry) ==
    IF i > Len(x) THEN <<>>
    ELSE LET s == x[i] * k + carry
         IN  <<s % 256>> \o scale_add_from(x, k, i + 1, s \div 256)

\* the value of a digit character in a positional numeral
DigitValue(c) ==
    IF c \in 48..57 THEN c - 48 ELSE IF c \in 65..70 THEN c - 55 ELSE c - 87

\* the positional value of the digits of str from index i on, first digit most
\* significant: acc * base^(digits left) + sum of value(d[j]) * base^(n - 1 - j)
RECURSIVE PositionalValue(_, _, _, _)
PositionalValue(str, base, i, acc) ==
    IF str[i] = 0 THEN acc
    ELSE PositionalValue(str, base, i + 1,
                         scale_add_from(acc, base, 1, DigitValue(str[i])))

ValueOf(str, base) == PositionalValue(str, base, 1, nat_bytes(0, WideBytes))

FitsU64(v) == \A i \in 9..Len(v) : v[i] = 0

\* C3: parsing reports an error whenever the value of the digit string does not fit
\* in an unsigned 64-bit integer.
C3_OverflowIsReported ==
    pcall.fn # "none" =>
        (~FitsU64(ValueOf(pcall.str, pcall.base)) => pcall.error)

\* C4: for every digit string whose positional value is below 2^64 the parser
\* returns exactly that value; leading zeros do not change it and the empty string
\* yields 0.
C4_ParsesPositionalValue ==
    pcall.fn # "none" =>
        LET v == ValueOf(pcall.str, pcall.base)
        IN  FitsU64(v) => pcall.ret = SubSeq(v, 1, 8)

\* 2^64 - 1 was parsed from 20 decimal digits behind two leading zeros
C4_Witness ==
    /\ pcall.fn = "ustring_parse_dec"
    /\ ustring_len(pcall.str) = 22
    /\ pcall.ret = <<255, 255, 255, 255, 255, 255, 255, 255>>

(***************************************************************************)
(* Properties of ustring_cmp.                                              *)
(***************************************************************************)
\* x < y for two code points, by their values
U32Less(x, y) ==
    \E i \in 1..4 : x[i] < y[i] /\ \A j \in (i + 1)..4 : x[j] = y[j]

\* the order of two zero-terminated strings by code points, as strcmp orders them:
\* -1 when left precedes right, 0 when they are equal, 1 when left follows right
RECURSIVE LexOrder(_, _, _)
LexOrder(left, right, i) ==
    IF left[i] = right[i]
    THEN IF left[i] = u32(0) THEN 0 ELSE LexOrder(left, right, i + 1)
    ELSE IF U32Less(left[i], right[i]) THEN -1 ELSE 1

\* the sign of an int64_t: its top bit is the sign
Int64Sign(x) ==
    IF x[8] >= 128 THEN -1 ELSE IF x = u64(0) THEN 0 ELSE 1

\* C8: ustring_cmp returns 0 if and only if the strings are equal, a negative value
\* when left precedes right in code-point order and a positive value when left
\* follows right.
C8_CmpOrdersLikeStrcmp ==
    ccall.fn = "ustring_cmp" =>
        Int64Sign(ccall.ret) = LexOrder(ccall.left, ccall.right, 1)

(***************************************************************************)
(* Properties of escape_to_unicode.                                        *)
(***************************************************************************)
\* the escape letters a, b, t, n, v, f, r
EscapeLetters == {97, 98, 116, 110, 118, 102, 114}

\* C5: escape_to_unicode maps a, b, t, n, v, f, r to 0x07, 0x08, 0x09, 0x0A, 0x0B,
\* 0x0C, 0x0D and returns every other code point unchanged.
C5_EscapeTable ==
    ecall.fn = "escape_to_unicode" =>
        /\ ecall.c = 97  => ecall.ret = 7
        /\ ecall.c = 98  => ecall.ret = 8
        /\ ecall.c = 116 => ecall.ret = 9
        /\ ecall.c = 110 => ecall.ret = 10
        /\ ecall.c = 118 => ecall.ret = 11
        /\ ecall.c = 102 => ecall.ret = 12
        /\ ecall.c = 114 => ecall.ret = 13
        /\ ecall.c \notin EscapeLetters => ecall.ret = ecall.c

\* the escape \v was resolved to the vertical tab
C5_Witness ==
    /\ ecall.fn = "escape_to_unicode"
    /\ ecall.c = 118
    /\ ecall.ret = 11

(***************************************************************************)
(* Properties of the UTF-8 functions.                                      *)
(***************************************************************************)
\* C9: peek_unicode leaves *str_ptr unchanged, returns the code point that the
\* (index+1)-th of index+1 successive eat_utf8 calls from *str_ptr returns, and,
\* when delta is not NULL, stores in *delta the number of bytes those calls consume.
C9_PeekIsRepeatedEat ==
    /\ ucall.fn = "peek_unicode" => str_ptr = ucall.from
    /\ pk.fn = "peek_unicode" /\ pk.eaten = pk.index + 1 =>
           /\ pk.last = pk.c
           /\ pk.delta_given => pk.delta = pk.end - pk.at

\* a peek at index 2 with a delta was followed by three eat_utf8 calls that read
\* "A", U+00E9 and "B"
C9_Witness ==
    /\ pk.fn = "peek_unicode"
    /\ pk.index = 2
    /\ pk.delta_given
    /\ pk.eaten = 3
    /\ pk.at = 1
    /\ pk.delta = 4
    /\ pk.c = 66
    /\ mem = <<65, 195, 169, 66>>

\* the number of bytes of the encoding of c, as the claim states it
EncodedLength(c) ==
    IF c < 128 THEN 1 ELSE IF c < 2048 THEN 2 ELSE IF c < 65536 THEN 3 ELSE 4

\* C10: for 1 <= c <= 0x1FFFFF put_unicode(c) emits 1, 2, 3 or 4 bytes and eat_utf8
\* on those bytes returns c, advances by the number of bytes emitted and reports no
\* ill-formed character; for c > 0x1FFFFF put_unicode emits nothing and reports an
\* invalid code point.
C10_Utf8RoundTrip ==
    /\ emitted.fn = "put_unicode" /\ emitted.c >= 1 /\ emitted.c <= 2097151 =>
           /\ emitted.n = EncodedLength(emitted.c)
           /\ ~emitted.err
           /\ ucall.fn = "eat_utf8" /\ ucall.from = emitted.at =>
                  /\ ucall.c = emitted.c
                  /\ str_ptr = emitted.at + emitted.n
                  /\ ~ucall.err
    /\ emitted.fn = "put_unicode" /\ emitted.c > 2097151 =>
           /\ emitted.n = 0
           /\ emitted.err

\* U+1F596 was printed as four bytes and read back
C10_Witness ==
    /\ emitted.fn = "put_unicode"
    /\ emitted.c = 128406
    /\ emitted.n = 4
    /\ ucall.fn = "eat_utf8"
    /\ ucall.from = emitted.at
    /\ ucall.c = 128406

====
